---------------------------- MODULE Spec2Model ----------------------------
(***************************************************************************)
(* Model of the two Streamlit dashboards of this repository:              *)
(*   Lab_9.py                 baby-names explorer (two cached loaders)    *)
(*   blog_post_3_streamlit.py MLB power-hitting dashboard (one loader)    *)
(*                                                                         *)
(* Text is modelled as sequences of one-character strings, so that        *)
(* suffix tests, slices and integer parsing are computed, not assumed.    *)
(***************************************************************************)
EXTENDS Integers, Sequences, FiniteSets, TLC

VARIABLES
    pipe,       \* one direct application of a loader body: [stage, rsp, res]
    cache,      \* Lab_9 process: st.cache_data store, key -> stored value
    fetches,    \* Lab_9 process: number of requests.get calls per key
    calls,      \* Lab_9 process: number of loader calls per key
    fails,      \* Lab_9 process: the exceptions loader calls raised, per key
    first,      \* Lab_9 process: value returned by the first successful call
    pc,         \* Lab_9 script run: position in the script
    env,        \* Lab_9 script run: the script's namespace and widget values
    mcache,     \* MLB process: st.cache_data store of load_data
    mstat,      \* MLB process: [fetches, calls, fails] of load_data
    mpc,        \* MLB script run: position in the script
    menv        \* MLB script run: the script's namespace

vars == <<pipe, cache, fetches, calls, fails, first, pc, env,
          mcache, mstat, mpc, menv>>

lab9vars == <<cache, fetches, calls, fails, first, pc, env>>
mlbvars  == <<mcache, mstat, mpc, menv>>

-----------------------------------------------------------------------------
(* Bounds of the model.                                                    *)

\* Largest number of entries of a modelled archive.
MaxEntries == 2
\* Largest number of loader calls per key followed in one process.
MaxCalls == 3

-----------------------------------------------------------------------------
(* Text helpers (Python str operations).                                   *)

Min(a, b) == IF a < b THEN a ELSE b

\* str.endswith(suf): case-sensitive comparison of the last Len(suf) characters
EndsWith(s, suf) ==
    /\ Len(s) >= Len(suf)
    /\ SubSeq(s, Len(s) - Len(suf) + 1, Len(s)) = suf

\* str.startswith(pre)
StartsWith(s, pre) ==
    /\ Len(s) >= Len(pre)
    /\ SubSeq(s, 1, Len(pre)) = pre

\* s[a:b] with 0-based a, exclusive b, clamped to the length as Python does
Slice(s, a, b) == SubSeq(s, a + 1, Min(b, Len(s)))

DigitChars == <<"0", "1", "2", "3", "4", "5", "6", "7", "8", "9">>

IsDigit(c) == \E i \in 1..Len(DigitChars) : DigitChars[i] = c

DigitVal(c) == (CHOOSE i \in 1..Len(DigitChars) : DigitChars[i] = c) - 1

\* the text is a non-empty run of decimal digits
IsDigits(s) == Len(s) > 0 /\ \A i \in 1..Len(s) : IsDigit(s[i])

RECURSIVE DigitsValue(_)
DigitsValue(s) ==
    IF s = <<>> THEN 0
    ELSE DigitsValue(SubSeq(s, 1, Len(s) - 1)) * 10 + DigitVal(s[Len(s)])

\* int(s): the value, or a ValueError when s is not a decimal numeral
PyInt(s) ==
    IF IsDigits(s) THEN [ok |-> TRUE, n |-> DigitsValue(s)]
    ELSE [ok |-> FALSE, n |-> 0]

\* str.lower() on the letters the model uses
UpperChars == <<"A", "C", "F", "J", "M", "T", "X">>
LowerChars == <<"a", "c", "f", "j", "m", "t", "x">>

LowerChar(c) ==
    IF \E i \in 1..Len(UpperChars) : UpperChars[i] = c
    THEN LowerChars[CHOOSE i \in 1..Len(UpperChars) : UpperChars[i] = c]
    ELSE c

Lower(s) == [i \in 1..Len(s) |-> LowerChar(s[i])]

-----------------------------------------------------------------------------
(* DataFrame values.  A cell is a number, a text or NaN; a frame is its    *)
(* column labels and its rows of cells.                                    *)

Num(n)  == [k |-> "num", n |-> n, s |-> <<>>]
Str(s)  == [k |-> "str", n |-> 0, s |-> s]
NaN     == [k |-> "nan", n |-> 0, s |-> <<>>]

Frame(cols, rows) == [cols |-> cols, rows |-> rows]

\* outcome of a call: a returned value, or the exception that was raised
Ok(v)     == [ok |-> TRUE, err |-> "", data |-> v]
Raise(e)  == [ok |-> FALSE, err |-> e, data |-> Frame(<<>>, <<>>)]

ColIndex(cols, c) == CHOOSE i \in 1..Len(cols) : cols[i] = c

HasCol(df, c) == \E i \in 1..Len(df.cols) : df.cols[i] = c

\* df[c] of one row
Cell(df, row, c) == row[ColIndex(df.cols, c)]

-----------------------------------------------------------------------------
(* pandas operations used by the loaders.                                  *)

\* default column labels 0, 1, 2, ... of a frame read with header=None
DefaultCols(n) == [j \in 1..n |-> DigitChars[j]]

\* type inference of read_csv: a column all of whose present fields are
\* decimal numerals becomes numeric; any other column keeps its texts
ColNumeric(lines, j) ==
    \A i \in 1..Len(lines) : Len(lines[i]) >= j => IsDigits(lines[i][j])

\* a line with fewer fields than the first line is padded with NaN
ConvertCell(lines, i, j) ==
    IF Len(lines[i]) < j THEN NaN
    ELSE IF ColNumeric(lines, j) THEN Num(DigitsValue(lines[i][j]))
    ELSE Str(lines[i][j])

\* pd.read_csv(f, header=None): the first line fixes the number of columns;
\* no line at all raises EmptyDataError, a longer line raises ParserError
ReadCsvNoHeader(lines) ==
    IF lines = <<>> THEN Raise("EmptyDataError")
    ELSE LET n == Len(lines[1])
         IN  IF \E i \in 1..Len(lines) : Len(lines[i]) > n
             THEN Raise("ParserError")
             ELSE Ok(Frame(DefaultCols(n),
                           [i \in 1..Len(lines) |->
                               [j \in 1..n |-> ConvertCell(lines, i, j)]]))

\* df.columns = names: raises ValueError on a length mismatch
SetColumns(df, names) ==
    IF Len(names) # Len(df.cols) THEN Raise("ValueError")
    ELSE Ok(Frame(names, df.rows))

\* df[c] = scalar, for a label c the frame does not have yet
AddColumn(df, c, cell) ==
    Frame(Append(df.cols, c), [i \in 1..Len(df.rows) |-> Append(df.rows[i], cell)])

\* labels of b that a lacks, in b's order
RECURSIVE NewCols(_, _)
NewCols(a, b) ==
    IF b = <<>> THEN <<>>
    ELSE IF \E i \in 1..Len(a) : a[i] = Head(b) THEN NewCols(a, Tail(b))
    ELSE <<Head(b)>> \o NewCols(Append(a, Head(b)), Tail(b))

RECURSIVE UnionCols(_)
UnionCols(dfs) ==
    IF dfs = <<>> THEN <<>>
    ELSE LET front == UnionCols(SubSeq(dfs, 1, Len(dfs) - 1))
         IN  front \o NewCols(front, dfs[Len(dfs)].cols)

\* the rows of df laid out on the labels cols, NaN where df has no such label
Reindex(df, cols) ==
    [i \in 1..Len(df.rows) |->
        [j \in 1..Len(cols) |->
            IF HasCol(df, cols[j]) THEN Cell(df, df.rows[i], cols[j]) ELSE NaN]]

RECURSIVE ConcatRows(_, _)
ConcatRows(dfs, cols) ==
    IF dfs = <<>> THEN <<>>
    ELSE Reindex(Head(dfs), cols) \o ConcatRows(Tail(dfs), cols)

Reverse(q) == [i \in 1..Len(q) |-> q[Len(q) + 1 - i]]

\* variant: the frames taken in the opposite order
ConcatReversed(dfs) ==
    IF dfs = <<>> THEN Raise("ValueError")
    ELSE Ok(Frame(UnionCols(dfs), ConcatRows(Reverse(dfs), UnionCols(dfs))))

\* pd.concat(dfs, ignore_index=True): rows of the frames in list order on the
\* union of their labels; an empty list raises ValueError
Concat(dfs) ==
    IF dfs = <<>> THEN Raise("ValueError")
    ELSE Ok(Frame(UnionCols(dfs), ConcatRows(dfs, UnionCols(dfs))))

-----------------------------------------------------------------------------
(* zipfile and requests.                                                   *)

\* z.namelist(): the member names in archive order
NameList(z) == [i \in 1..Len(z) |-> z[i].name]

\* z.open(name): the member of that name (the last one the archive lists)
ZipOpen(z, name) ==
    z[CHOOSE i \in 1..Len(z) :
        /\ z[i].name = name
        /\ \A k \in (i + 1)..Len(z) : z[k].name # name].lines

\* requests.get raises only when no response arrives; a response of any
\* status is returned, and the loaders read response.content without looking
\* at the status.  zipfile.ZipFile raises BadZipFile on content that is no zip.
Response(net, status, zip, entries) ==
    [net |-> net, status |-> status, zip |-> zip, entries |-> entries]

-----------------------------------------------------------------------------
(* Lab_9.py: the two loader bodies.                                        *)

DotTxt      == <<".", "t", "x", "t">>
DotTxtUpper == <<".", "T", "X", "T">>

NationalColumns == <<"name", "sex", "count">>
StateColumns    == <<"state", "sex", "year", "name", "count">>

\* variant: the suffix compared without regard to case
IsNationalFileAnyCase(file) == EndsWith(Lower(file), DotTxt)

\* Lab_9.py:17  file.endswith('.txt')
IsNationalFile(file) == EndsWith(file, DotTxt)

\* Lab_9.py:34  file.endswith('.TXT')
IsStateFile(file) == EndsWith(file, DotTxtUpper)

\* variant: the slice taken one character later
NationalYearShifted(file) == PyInt(Slice(file, 4, 8))

\* Lab_9.py:22  int(file[3:7])
NationalYear(file) == PyInt(Slice(file, 3, 7))

Frames(dfs)   == [ok |-> TRUE, err |-> "", dfs |-> dfs]
NoFrames(err) == [ok |-> FALSE, err |-> err, dfs |-> <<>>]

\* Lab_9.py:18-23  the loop body for one file: read, label, add the year
NationalFrame(z, file) ==
    LET r == ReadCsvNoHeader(ZipOpen(z, file))
        c == SetColumns(r.data, NationalColumns)
        y == NationalYear(file)
    IN  IF ~r.ok THEN r
        ELSE IF ~c.ok THEN c
        ELSE IF ~y.ok THEN Raise("ValueError")
        ELSE Ok(AddColumn(c.data, "year", Num(y.n)))

\* Lab_9.py:18-23  the loop: the first exception ends the call
RECURSIVE NationalFrames(_, _)
NationalFrames(z, files) ==
    IF files = <<>> THEN Frames(<<>>)
    ELSE LET df   == NationalFrame(z, Head(files))
             rest == NationalFrames(z, Tail(files))
         IN  IF ~df.ok THEN NoFrames(df.err)
             ELSE IF ~rest.ok THEN rest
             ELSE Frames(<<df.data>> \o rest.dfs)

\* Lab_9.py:35-38  the loop body for one file: read, label
StateFrame(z, file) ==
    LET r == ReadCsvNoHeader(ZipOpen(z, file))
    IN  IF ~r.ok THEN r ELSE SetColumns(r.data, StateColumns)

\* Lab_9.py:33-38
RECURSIVE StateFrames(_, _)
StateFrames(z, files) ==
    IF files = <<>> THEN Frames(<<>>)
    ELSE IF ~IsStateFile(Head(files)) THEN StateFrames(z, Tail(files))
    ELSE LET df   == StateFrame(z, Head(files))
             rest == StateFrames(z, Tail(files))
         IN  IF ~df.ok THEN NoFrames(df.err)
             ELSE IF ~rest.ok THEN rest
             ELSE Frames(<<df.data>> \o rest.dfs)

\* Lab_9.py:12-25  the body of load_national_data
load_national_data(rsp) ==
    IF rsp.net # "ok" THEN Raise("ConnectionError")
    ELSE IF ~rsp.zip THEN Raise("BadZipFile")
    ELSE LET z     == rsp.entries
             files == SelectSeq(NameList(z), IsNationalFile)
             fr    == NationalFrames(z, files)
         IN  IF ~fr.ok THEN Raise(fr.err) ELSE Concat(fr.dfs)

\* Lab_9.py:28-40  the body of load_state_data
load_state_data(rsp) ==
    IF rsp.net # "ok" THEN Raise("ConnectionError")
    ELSE IF ~rsp.zip THEN Raise("BadZipFile")
    ELSE LET z  == rsp.entries
             fr == StateFrames(z, NameList(z))
         IN  IF ~fr.ok THEN Raise(fr.err) ELSE Concat(fr.dfs)

-----------------------------------------------------------------------------
(* Inputs: fields, lines, member names, members, archives, responses.      *)

FJohn == <<"J", "o", "h", "n">>
FMary == <<"M", "a", "r", "y">>
FM    == <<"M">>
FF    == <<"F">>
FCA   == <<"C", "A">>
F100  == <<"1", "0", "0">>
F50   == <<"5", "0">>
F2001 == <<"2", "0", "0", "1">>
F1999 == <<"1", "9", "9", "9">>

LineJohn3  == <<FJohn, FM, F100>>
LineMary3  == <<FMary, FF, F50>>
LineMaryX  == <<FMary, FF, <<"x">>>>
LineMary2  == <<FMary, FF>>
LineMary5  == <<FCA, FF, F2001, FMary, F50>>
LineJohn5  == <<FCA, FM, F1999, FJohn, F100>>
LineMary4  == <<FCA, FF, F2001, FMary>>

NameAbc1999 == <<"a", "b", "c">> \o F1999 \o DotTxt
NameYob2001 == <<"y", "o", "b">> \o F2001 \o DotTxt
NameShort   == <<"a", "b">> \o DotTxt
NamePdf     == <<"d", "o", "c", ".", "p", "d", "f">>
NameCA      == FCA \o DotTxtUpper
NameYobUpper == <<"y", "o", "b">> \o F1999 \o DotTxtUpper

MemberNames == {NameAbc1999, NameYob2001, NameShort, NamePdf, NameCA, NameYobUpper}

MemberLines ==
    { <<LineJohn3>>, <<LineJohn3, LineMary3>>, <<LineJohn3, LineMary2>>,
      <<LineJohn3, LineMaryX>>, <<LineMary2, LineJohn3>>, <<>>,
      <<LineMary5, LineJohn5>>, <<LineMary5, LineMary4>> }

Members == [name : MemberNames, lines : MemberLines]

DistinctNames(z) ==
    \A i, k \in 1..Len(z) : i # k => z[i].name # z[k].name

\* archives of at most MaxEntries members with pairwise distinct names
Archives ==
    UNION { {z \in [1..n -> Members] : DistinctNames(z)} : n \in 0..MaxEntries }

Statuses == {200, 404}

Responses ==
    {Response("down", 0, FALSE, <<>>)}
    \cup {Response("ok", st, FALSE, <<>>) : st \in Statuses}
    \cup {Response("ok", st, TRUE, z) : st \in Statuses, z \in Archives}

-----------------------------------------------------------------------------
(* One application of a loader body to one response.                       *)

NoResult == Raise("")

PipeOff == [stage |-> "off", rsp |-> Response("down", 0, FALSE, <<>>), res |-> NoResult]

PipeNational ==
    /\ pipe.stage = "input"
    /\ pipe' = [pipe EXCEPT !.stage = "national",
                            !.res = load_national_data(pipe.rsp)]
    /\ UNCHANGED <<lab9vars, mlbvars>>

PipeState ==
    /\ pipe.stage = "input"
    /\ pipe' = [pipe EXCEPT !.stage = "state",
                            !.res = load_state_data(pipe.rsp)]
    /\ UNCHANGED <<lab9vars, mlbvars>>

-----------------------------------------------------------------------------
(* st.cache_data: the memoizing wrapper of a loader without parameters.    *)

NoVar      == [set |-> FALSE, data |-> Frame(<<>>, <<>>)]
Var(v)     == [set |-> TRUE, data |-> v]

\* variant: the body runs on every call
CacheHitNever(entry) == FALSE

\* Lab_9.py:11,27  a stored return value is served without running the body
CacheHit(entry) == entry.set

\* variant: the outcome of a raising body is stored as well
StoreAfterAlways(entry, res) == Var(res.data)

\* Lab_9.py:11,27  the wrapper stores what the body returns; an exception
\* passes through it to the caller and nothing is stored
StoreAfter(entry, res) == IF res.ok THEN Var(res.data) ELSE entry

-----------------------------------------------------------------------------
(* Lab_9.py: the process and its script runs.                              *)

Keys == {"national", "state"}

\* what the two URLs can answer over the life of the process
ArchiveNational1 == <<[name |-> NameAbc1999, lines |-> <<LineJohn3>>]>>
ArchiveNational2 ==
    <<[name |-> NameAbc1999, lines |-> <<LineJohn3>>],
      [name |-> NameYob2001, lines |-> <<LineJohn3, LineMary3>>]>>
ArchiveNoMatch   == <<[name |-> NamePdf, lines |-> <<LineMary2>>]>>
ArchiveState1    == <<[name |-> NameCA, lines |-> <<LineMary5>>]>>
ArchiveState2    == <<[name |-> NameCA, lines |-> <<LineMary5, LineJohn5>>]>>
ArchiveBadLine   == <<[name |-> NameCA, lines |-> <<LineMary2, LineJohn3>>]>>

NationalRemote ==
    { Response("down", 0, FALSE, <<>>),
      Response("ok", 200, TRUE, ArchiveNational1),
      Response("ok", 200, TRUE, ArchiveNational2),
      Response("ok", 200, TRUE, ArchiveNoMatch) }

StateRemote ==
    { Response("down", 0, FALSE, <<>>),
      Response("ok", 200, TRUE, ArchiveState1),
      Response("ok", 200, TRUE, ArchiveState2),
      Response("ok", 200, TRUE, ArchiveBadLine) }

\* the namespace of a script run before its first statement
EmptyEnv ==
    [ national_data   |-> NoVar,
      state_data      |-> NoVar,
      data_scope      |-> "",
      selected_states |-> {},
      analysis_type   |-> "",
      gender_filter   |-> <<>>,
      input_name      |-> <<>>,
      year_range      |-> <<0, 0>>,
      name_data       |-> NoVar,
      top_data        |-> NoVar,
      year_data       |-> NoVar,
      err             |-> "",
      trace           |-> <<>> ]

LabInit ==
    /\ cache   = [k \in Keys |-> NoVar]
    /\ fetches = [k \in Keys |-> 0]
    /\ calls   = [k \in Keys |-> 0]
    /\ fails   = [k \in Keys |-> <<>>]
    /\ first   = [k \in Keys |-> NoVar]
    /\ env     = EmptyEnv

\* a rerun (page load or widget interaction) executes the script from its
\* first line in a fresh namespace
Lab9Rerun ==
    /\ pc \in {"idle", "done", "crashed"}
    /\ calls["national"] < MaxCalls
    /\ pc' = "load_national"
    /\ env' = EmptyEnv
    /\ UNCHANGED <<pipe, cache, fetches, calls, fails, first, mlbvars>>

\* variant: the run goes on after a loader raised
AfterLoadAlways(ok, next) == next

\* Lab_9.py:43-45  an exception raised by a loader ends the run
AfterLoad(ok, next) == IF ok THEN next ELSE "crashed"

\* variant: both loaders served from one store
KeyOfShared(loader) == "national"

\* Lab_9.py:11,27  each decorated function has a store of its own
KeyOf(loader) == loader

\* one call of the cached loader k whose body answers res when run
CallCached(k, res, dataVar, here, next) ==
    IF CacheHit(cache[KeyOf(k)])
    THEN /\ env' = [env EXCEPT ![dataVar] = Var(cache[KeyOf(k)].data),
                               !.trace = Append(@, here)]
         /\ calls' = [calls EXCEPT ![k] = @ + 1]
         /\ pc' = next
         /\ UNCHANGED <<cache, fetches, fails, first>>
    ELSE /\ cache' = [cache EXCEPT ![KeyOf(k)] = StoreAfter(@, res)]
         /\ fetches' = [fetches EXCEPT ![k] = @ + 1]
         /\ calls' = [calls EXCEPT ![k] = @ + 1]
         /\ fails' = [fails EXCEPT ![k] = IF res.ok THEN @ ELSE Append(@, res.err)]
         /\ first' = [first EXCEPT ![k] = IF res.ok /\ ~@.set THEN Var(res.data) ELSE @]
         /\ env' = [env EXCEPT ![dataVar] = IF res.ok THEN Var(res.data) ELSE NoVar,
                               !.err = res.err,
                               !.trace = Append(@, here)]
         /\ pc' = AfterLoad(res.ok, next)

\* Lab_9.py:44  national_data = load_national_data()
Lab9LoadNational ==
    /\ pc = "load_national"
    /\ \E rsp \in NationalRemote :
          CallCached("national", load_national_data(rsp), "national_data",
                     "load_national", "load_state")
    /\ UNCHANGED <<pipe, mlbvars>>

\* Lab_9.py:45  state_data = load_state_data()
Lab9LoadState ==
    /\ pc = "load_state"
    /\ \E rsp \in StateRemote :
          CallCached("state", load_state_data(rsp), "state_data",
                     "load_state", "sidebar")
    /\ UNCHANGED <<pipe, mlbvars>>

\* the values a widget can hand to the script
Scopes       == {"National", "State"}
Analyses     == {"Name Trends", "Top Names"}
InputNames   == {<<>>, FJohn, Lower(FMary)}
YearRanges   == {<<1950, 2022>>, <<1880, 1990>>}
YearSelects  == {2000, 1999}

\* Lab_9.py:211  value=2000 of the "Select Year to Analyze" slider
SliderDefaultYear == 2000

SeqToSet(q) == {q[i] : i \in 1..Len(q)}

\* Series.str.lower() == text.lower(), False on cells that are no text
LowerEquals(cell, text) == cell.k = "str" /\ Lower(cell.s) = Lower(text)

\* Series.between(lo, hi), inclusive, False on cells that are no number
Between(cell, lo, hi) == cell.k = "num" /\ lo <= cell.n /\ cell.n <= hi

\* Series.isin(values)
IsIn(cell, values) == cell.k = "str" /\ cell.s \in values

NumEquals(cell, n) == cell.k = "num" /\ cell.n = n

\* Lab_9.py:59  state_data['state'].unique(), the options of the multiselect
StateOptions(df) ==
    {Cell(df, df.rows[i], "state").s : i \in 1..Len(df.rows)}

\* Lab_9.py:75-79
GenderFilter(male_selected, female_selected) ==
    (IF male_selected THEN <<FM>> ELSE <<>>)
    \o (IF female_selected THEN <<FF>> ELSE <<>>)

\* Lab_9.py:48-79  the sidebar: scope, states, analysis type, genders
Lab9Sidebar ==
    /\ pc = "sidebar"
    /\ \E scope \in Scopes, analysis \in Analyses,
          male_selected \in BOOLEAN, female_selected \in BOOLEAN :
        \E sel \in (IF scope = "State"
                    THEN SUBSET StateOptions(env.state_data.data) ELSE {{}}) :
            env' = [env EXCEPT !.data_scope = scope,
                               !.selected_states = sel,
                               !.analysis_type = analysis,
                               !.gender_filter =
                                   GenderFilter(male_selected, female_selected),
                               !.trace = Append(@, "sidebar")]
    /\ pc' = "tab1"
    /\ UNCHANGED <<pipe, cache, fetches, calls, fails, first, mlbvars>>

\* Lab_9.py:103-106
NationalNameRows(df, input_name, year_range) ==
    SelectSeq(df.rows, LAMBDA row :
        /\ LowerEquals(Cell(df, row, "name"), input_name)
        /\ Between(Cell(df, row, "year"), year_range[1], year_range[2]))

\* Lab_9.py:108-112
StateNameRows(df, input_name, selected_states, year_range) ==
    SelectSeq(df.rows, LAMBDA row :
        /\ LowerEquals(Cell(df, row, "name"), input_name)
        /\ IsIn(Cell(df, row, "state"), selected_states)
        /\ Between(Cell(df, row, "year"), year_range[1], year_range[2]))

\* Lab_9.py:114  name_data[name_data['sex'].isin(gender_filter)]
SexRows(df, gender_filter) ==
    Frame(df.cols, SelectSeq(df.rows, LAMBDA row :
        IsIn(Cell(df, row, "sex"), SeqToSet(gender_filter))))

\* Lab_9.py:101-114  name_data is assigned only under "if input_name:"
NameData(e, input_name, year_range) ==
    IF input_name = <<>> THEN e.name_data
    ELSE IF e.data_scope = "National"
    THEN Var(SexRows(Frame(e.national_data.data.cols,
                 NationalNameRows(e.national_data.data, input_name, year_range)),
             e.gender_filter))
    ELSE Var(SexRows(Frame(e.state_data.data.cols,
                 StateNameRows(e.state_data.data, input_name,
                               e.selected_states, year_range)),
             e.gender_filter))

\* Lab_9.py:89-137  "Name Trends", first column: inputs, filter, line chart
Lab9NameTrends ==
    /\ pc = "tab1"
    /\ env.analysis_type = "Name Trends"
    /\ \E input_name \in InputNames, year_range \in YearRanges :
          env' = [env EXCEPT !.input_name = input_name,
                             !.year_range = year_range,
                             !.name_data = NameData(env, input_name, year_range),
                             !.trace = Append(@, "name_trends")]
    /\ pc' = "stats"
    /\ UNCHANGED <<pipe, cache, fetches, calls, fails, first, mlbvars>>

\* Lab_9.py:139-163  "Name Trends", second column: line 140 reads name_data;
\* reading a name the run never assigned raises NameError
Lab9NameStats ==
    /\ pc = "stats"
    /\ IF env.name_data.set
       THEN /\ pc' = "tab2"
            /\ env' = [env EXCEPT !.trace = Append(@, "stats")]
       ELSE /\ pc' = "crashed"
            /\ env' = [env EXCEPT !.err = "NameError",
                                  !.trace = Append(@, "stats")]
    /\ UNCHANGED <<pipe, cache, fetches, calls, fails, first, mlbvars>>

\* Lab_9.py:173-179
TopData(e, year_select) ==
    IF e.data_scope = "National"
    THEN Frame(e.national_data.data.cols,
               SelectSeq(e.national_data.data.rows, LAMBDA row :
                   NumEquals(Cell(e.national_data.data, row, "year"), year_select)))
    ELSE Frame(e.state_data.data.cols,
               SelectSeq(e.state_data.data.rows, LAMBDA row :
                   /\ NumEquals(Cell(e.state_data.data, row, "year"), year_select)
                   /\ IsIn(Cell(e.state_data.data, row, "state"), e.selected_states)))

\* Lab_9.py:165-201  "Top Names"
Lab9TopNames ==
    /\ pc = "tab1"
    /\ env.analysis_type = "Top Names"
    /\ \E year_select \in YearSelects :
          env' = [env EXCEPT !.top_data = Var(TopData(env, year_select)),
                             !.trace = Append(@, "top_names")]
    /\ pc' = "tab2"
    /\ UNCHANGED <<pipe, cache, fetches, calls, fails, first, mlbvars>>

YearsOf(df) == {Cell(df, df.rows[i], "year").n : i \in 1..Len(df.rows)}

MinOf(S) == CHOOSE x \in S : \A y \in S : x <= y
MaxOf(S) == CHOOSE x \in S : \A y \in S : x >= y

\* Lab_9.py:214-221  year_data is a copy of the selected rows; the column
\* name_length is added to the copy when it has rows
YearData(df, selected_year) ==
    LET rows == SelectSeq(df.rows, LAMBDA row :
                    NumEquals(Cell(df, row, "year"), selected_year))
        copy == Frame(df.cols, rows)
    IN  IF rows = <<>> THEN copy
        ELSE Frame(Append(copy.cols, "name_length"),
                   [i \in 1..Len(rows) |->
                       Append(rows[i],
                              IF Cell(df, rows[i], "name").k = "str"
                              THEN Num(Len(Cell(df, rows[i], "name").s))
                              ELSE NaN)])

\* Lab_9.py:203-258  "Fun Facts & Stats" and the footer; the slider raises when
\* its default lies outside the years of national_data
Lab9Tab2 ==
    /\ pc = "tab2"
    /\ LET years == YearsOf(env.national_data.data)
       IN  IF MinOf(years) <= SliderDefaultYear /\ SliderDefaultYear <= MaxOf(years)
           THEN /\ pc' = "done"
                /\ \E selected_year \in {SliderDefaultYear, MinOf(years)} :
                      env' = [env EXCEPT
                                 !.year_data = Var(YearData(env.national_data.data,
                                                            selected_year)),
                                 !.trace = Append(@, "tab2")]
           ELSE /\ pc' = "crashed"
                /\ env' = [env EXCEPT !.err = "StreamlitAPIException",
                                      !.trace = Append(@, "tab2")]
    /\ UNCHANGED <<pipe, cache, fetches, calls, fails, first, mlbvars>>

Lab9Next ==
    \/ Lab9Rerun
    \/ Lab9LoadNational
    \/ Lab9LoadState
    \/ Lab9Sidebar
    \/ Lab9NameTrends
    \/ Lab9NameStats
    \/ Lab9TopNames
    \/ Lab9Tab2

-----------------------------------------------------------------------------
(* blog_post_3_streamlit.py: load_data.                                     *)

TextUnnamed  == <<"U", "n", "n", "a", "m", "e", "d">>
LabelPlayer  == <<"P", "l", "a", "y", "e", "r", " ", "N", "a", "m", "e">>
LabelTeam    == <<"T", "e", "a", "m">>
LabelHR      == <<"H", "o", "m", "e", " ", "R", "u", "n", "s">>
LabelHRAB    == <<"H", "o", "m", "e", " ", "R", "u", "n", "s", " ", "p", "e", "r", " ", "A", "t", " ", "B", "a", "t">>
LabelISO     == <<"I", "s", "o", "l", "a", "t", "e", "d", " ", "P", "o", "w", "e", "r">>
TwoTeams     == <<"2", "T", "M">>

\* read_csv names a column whose header field is empty "Unnamed: <position>"
UnnamedLabel(j) == TextUnnamed \o <<":", " ", DigitChars[j]>>

HeaderLabels(fields) ==
    [j \in 1..Len(fields) |-> IF fields[j] = <<>> THEN UnnamedLabel(j) ELSE fields[j]]

\* pd.read_csv(url): the first line holds the labels, the others the rows
\* (a data line longer than the header is not among the inputs)
ReadCsvHeader(text) ==
    IF text = <<>> THEN Raise("EmptyDataError")
    ELSE LET n     == Len(text[1])
             lines == Tail(text)
         IN  IF \E i \in 1..Len(lines) : Len(lines[i]) > n
             THEN Raise("ParserError")
             ELSE Ok(Frame(HeaderLabels(text[1]),
                           [i \in 1..Len(lines) |->
                               [j \in 1..n |-> ConvertCell(lines, i, j)]]))

\* positions of the labels kept by ~df.columns.str.contains('^Unnamed')
NamedPositions(cols) ==
    SelectSeq([j \in 1..Len(cols) |-> j], LAMBDA j : ~StartsWith(cols[j], TextUnnamed))

\* blog_post_3_streamlit.py:18  df.loc[:, ~df.columns.str.contains('^Unnamed')]
DropUnnamed(df) ==
    LET keep == NamedPositions(df.cols)
    IN  Frame([j \in 1..Len(keep) |-> df.cols[keep[j]]],
              [i \in 1..Len(df.rows) |->
                  [j \in 1..Len(keep) |-> df.rows[i][keep[j]]]])

\* blog_post_3_streamlit.py:19  df[df['Team'] != '2TM']
DropTwoTeams(df) ==
    Frame(df.cols, SelectSeq(df.rows, LAMBDA row :
        ~(Cell(df, row, LabelTeam).k = "str" /\ Cell(df, row, LabelTeam).s = TwoTeams)))

\* blog_post_3_streamlit.py:14-20  the body of load_data; read_csv on a URL
\* raises when no response arrives and on a response that is not a success
load_data(rsp) ==
    IF rsp.net # "ok" THEN Raise("URLError")
    ELSE IF rsp.status # 200 THEN Raise("HTTPError")
    ELSE LET r == ReadCsvHeader(rsp.text)
         IN  IF ~r.ok THEN r
             ELSE IF ~HasCol(DropUnnamed(r.data), LabelTeam) THEN Raise("KeyError")
             ELSE Ok(DropTwoTeams(DropUnnamed(r.data)))

MlbResponse(net, status, text) == [net |-> net, status |-> status, text |-> text]

MlbHeader    == <<<<>>, LabelPlayer, LabelTeam, LabelHR, LabelHRAB, LabelISO>>
MlbNoTeam    == <<<<>>, LabelPlayer, LabelHR>>
PlayerLine(i, team) ==
    <<<<DigitChars[i]>>, <<"P", DigitChars[i]>>, team, F50, <<DigitChars[i]>>, F100>>
TeamA        == <<"N", "Y", "Y">>
TeamB        == <<"L", "A", "D">>

\* a file of two players, and a file of eleven with default-sized rankings
MlbCsvSmall  == <<MlbHeader, PlayerLine(1, TeamA), PlayerLine(2, TwoTeams)>>
MlbCsvLarge  ==
    <<MlbHeader>> \o [i \in 1..9 |-> PlayerLine(i, IF i < 5 THEN TeamA ELSE TeamB)]
    \o <<PlayerLine(1, TwoTeams), PlayerLine(2, TeamB)>>
MlbCsvNoTeam == <<MlbNoTeam, <<<<"1">>, <<"P", "1">>, F50>>>>

MlbRemote ==
    { MlbResponse("down", 0, <<>>),
      MlbResponse("ok", 404, <<>>),
      MlbResponse("ok", 200, MlbCsvSmall),
      MlbResponse("ok", 200, MlbCsvLarge),
      MlbResponse("ok", 200, MlbCsvNoTeam) }

-----------------------------------------------------------------------------
(* blog_post_3_streamlit.py: the process and its script runs.              *)

\* blog_post_3_streamlit.py:45  value=10 of the number input
TopNDefault == 10

MlbAnalyses == {"Power Metrics Overview", "Team Analysis", "Custom Analysis"}
TeamMetrics == {"Average HR/AB", "Average ISO", "Total Home Runs"}
AxisChoices == {LabelHR, LabelHRAB, LabelISO}

EmptyMenv ==
    [ df            |-> NoVar,
      analysis_type |-> "",
      top_n         |-> 0,
      error_shown   |-> FALSE,
      err           |-> "",
      trace         |-> <<>> ]

MlbInit ==
    /\ mcache = NoVar
    /\ mstat  = [fetches |-> 0, calls |-> 0, fails |-> <<>>]
    /\ menv   = EmptyMenv

MlbRerun ==
    /\ mpc \in {"idle", "done", "stopped", "crashed"}
    /\ mstat.calls < MaxCalls
    /\ mpc' = "load"
    /\ menv' = EmptyMenv
    /\ UNCHANGED <<pipe, lab9vars, mcache, mstat>>

\* variant: the run goes on after load_data raised
AfterTryAlways(ok) == "sidebar"

\* blog_post_3_streamlit.py:23-27  except: st.error(...); st.stop()
AfterTry(ok) == IF ok THEN "sidebar" ELSE "stopped"

\* blog_post_3_streamlit.py:13-27  df = load_data() under try/except
MlbLoad ==
    /\ mpc = "load"
    /\ IF CacheHit(mcache)
       THEN /\ menv' = [menv EXCEPT !.df = Var(mcache.data),
                                    !.trace = Append(@, "load")]
            /\ mstat' = [mstat EXCEPT !.calls = @ + 1]
            /\ mpc' = "sidebar"
            /\ UNCHANGED mcache
       ELSE \E rsp \in MlbRemote :
              LET res == load_data(rsp)
              IN  /\ mcache' = StoreAfter(mcache, res)
                  /\ mstat' = [mstat EXCEPT
                                  !.fetches = @ + 1,
                                  !.calls = @ + 1,
                                  !.fails = IF res.ok THEN @ ELSE Append(@, res.err)]
                  /\ menv' = [menv EXCEPT
                                  !.df = IF res.ok THEN Var(res.data) ELSE NoVar,
                                  !.error_shown = ~res.ok,
                                  !.err = res.err,
                                  !.trace = Append(@, "load")]
                  /\ mpc' = AfterTry(res.ok)
    /\ UNCHANGED <<pipe, lab9vars>>

\* blog_post_3_streamlit.py:30-51  the sidebar; the number input raises when
\* its default exceeds max_value=len(df)
MlbSidebar ==
    /\ mpc = "sidebar"
    /\ \E analysis \in MlbAnalyses :
          IF analysis = "Power Metrics Overview"
             /\ Len(menv.df.data.rows) < TopNDefault
          THEN /\ mpc' = "crashed"
               /\ menv' = [menv EXCEPT !.analysis_type = analysis,
                                       !.err = "StreamlitAPIException",
                                       !.trace = Append(@, "sidebar")]
          ELSE /\ mpc' = "main"
               /\ \E n \in {1, TopNDefault} :
                     menv' = [menv EXCEPT
                                 !.analysis_type = analysis,
                                 !.top_n = IF analysis = "Power Metrics Overview"
                                           THEN n ELSE 0,
                                 !.trace = Append(@, "sidebar")]
    /\ UNCHANGED <<pipe, lab9vars, mcache, mstat>>

\* blog_post_3_streamlit.py:54-126  rankings and correlation
MlbPowerMetrics ==
    /\ mpc = "main"
    /\ menv.analysis_type = "Power Metrics Overview"
    /\ HasCol(menv.df.data, LabelHRAB) /\ HasCol(menv.df.data, LabelISO)
    /\ mpc' = "done"
    /\ menv' = [menv EXCEPT !.trace = Append(@, "rankings")]
    /\ UNCHANGED <<pipe, lab9vars, mcache, mstat>>

\* blog_post_3_streamlit.py:128-152  per-team aggregates
MlbTeamAnalysis ==
    /\ mpc = "main"
    /\ menv.analysis_type = "Team Analysis"
    /\ \E team_metric \in TeamMetrics :
          HasCol(menv.df.data,
                 IF team_metric = "Average HR/AB" THEN LabelHRAB
                 ELSE IF team_metric = "Average ISO" THEN LabelISO ELSE LabelHR)
    /\ mpc' = "done"
    /\ menv' = [menv EXCEPT !.trace = Append(@, "team")]
    /\ UNCHANGED <<pipe, lab9vars, mcache, mstat>>

\* blog_post_3_streamlit.py:154-178  scatter of two chosen metrics
MlbCustomAnalysis ==
    /\ mpc = "main"
    /\ menv.analysis_type = "Custom Analysis"
    /\ \E x_axis \in AxisChoices, y_axis \in AxisChoices :
          HasCol(menv.df.data, x_axis) /\ HasCol(menv.df.data, y_axis)
    /\ mpc' = "done"
    /\ menv' = [menv EXCEPT !.trace = Append(@, "custom")]
    /\ UNCHANGED <<pipe, lab9vars, mcache, mstat>>

MlbNext ==
    \/ MlbRerun
    \/ MlbLoad
    \/ MlbSidebar
    \/ MlbPowerMetrics
    \/ MlbTeamAnalysis
    \/ MlbCustomAnalysis

-----------------------------------------------------------------------------
(* Specifications.                                                         *)

\* a behaviour follows one of the two dashboards; each is a process of its own
Init ==
    /\ pipe = PipeOff
    /\ LabInit
    /\ MlbInit
    /\ \/ pc = "idle" /\ mpc = "off"
       \/ pc = "off" /\ mpc = "idle"

Next == Lab9Next \/ MlbNext

Spec == Init /\ [][Next]_vars

\* the loader bodies applied once to each response of the input set
PipelineInit ==
    /\ pipe \in {[stage |-> "input", rsp |-> r, res |-> NoResult] : r \in Responses}
    /\ LabInit
    /\ MlbInit
    /\ pc = "off"
    /\ mpc = "off"

PipelineNext == PipeNational \/ PipeState

PipelineSpec == PipelineInit /\ [][PipelineNext]_vars

-----------------------------------------------------------------------------
(* Vocabulary of the properties.                                           *)

Applied == pipe.stage \in {"national", "state"}

\* the response carried an archive that opened
Opened == Applied /\ pipe.rsp.net = "ok" /\ pipe.rsp.zip

Suffix == IF pipe.stage = "national" THEN DotTxt ELSE DotTxtUpper

Width == IF pipe.stage = "national" THEN Len(NationalColumns) ELSE Len(StateColumns)

\* character-wise statement of "name ends with suf"
HasSuffix(name, suf) ==
    /\ Len(name) >= Len(suf)
    /\ \A k \in 1..Len(suf) : name[Len(name) - Len(suf) + k] = suf[k]

\* positions of the members of z whose name carries the loader's suffix
Matching(z) == {i \in 1..Len(z) : HasSuffix(z[i].name, Suffix)}

\* the loader of the current stage applied to an archive served with status 200
LoadArchive(z) ==
    IF pipe.stage = "national"
    THEN load_national_data(Response("ok", 200, TRUE, z))
    ELSE load_state_data(Response("ok", 200, TRUE, z))

\* the records of member i extracted on its own
Alone(z, i) == LoadArchive(<<z[i]>>).data.rows

\* number of lines of the matching members in S
LinesIn(z, S) ==
    Cardinality(UNION {{<<k, r>> : r \in 1..Len(z[k].lines)} : k \in S})

\* number of records the matching members before member i contribute
Before(z, i) == LinesIn(z, {k \in Matching(z) : k < i})

\* the cell a field becomes: its number or its text
FromField(cell, field) ==
    \/ cell = Str(field)
    \/ IsDigits(field) /\ cell = Num(DigitsValue(field))

\* the year written at indices 3..6 of a member name
YearDigits(name) ==
    1000 * DigitVal(name[4]) + 100 * DigitVal(name[5])
    + 10 * DigitVal(name[6]) + DigitVal(name[7])

-----------------------------------------------------------------------------
(* Properties of the loader bodies (PipelineSpec).                         *)

\* C4: whenever a loader returns a Dataset, that Dataset is the row-wise
\* concatenation, in archive order, of the record sequences of the matching
\* members, each as extracted on its own: the records of member i stand at
\* the offsets following those of the matching members before it, nothing is
\* sorted or deduplicated, and the row count is the sum of the line counts of
\* the matching members.
C4_DatasetIsConcatenation ==
    (Opened /\ pipe.res.ok) =>
        LET z    == pipe.rsp.entries
            rows == pipe.res.data.rows
        IN  /\ Len(rows) = LinesIn(z, Matching(z))
            /\ \A i \in Matching(z) :
                  /\ Len(Alone(z, i)) = Len(z[i].lines)
                  /\ \A r \in 1..Len(z[i].lines) :
                        rows[Before(z, i) + r] = Alone(z, i)[r]

\* C4 witness: two matching members of two and one lines gave three records,
\* the second member's record identical to one of the first member's except
\* for its derived year.
C4_Witness ==
    /\ pipe.stage = "national"
    /\ pipe.res.ok
    /\ Len(pipe.rsp.entries) = 2
    /\ Matching(pipe.rsp.entries) = {1, 2}
    /\ Len(pipe.rsp.entries[1].lines) = 2
    /\ pipe.rsp.entries[2].lines = <<LineJohn3>>
    /\ Len(pipe.res.data.rows) = 3

\* C5: a member contributes records exactly when its name ends with the
\* loader's case-sensitive suffix: the outcome of a call is the outcome on the
\* archive with the other members removed (they raise nothing and add
\* nothing), every line of every matching member gives a record, and an
\* archive with a matching member whose members all extract yields a Dataset.
C5_SuffixDecidesContribution ==
    Opened =>
        LET z    == pipe.rsp.entries
            kept == SelectSeq(z, LAMBDA m : HasSuffix(m.name, Suffix))
        IN  /\ pipe.res = LoadArchive(kept)
            /\ pipe.res.ok => Len(pipe.res.data.rows) = LinesIn(z, Matching(z))
            /\ pipe.res.ok => Matching(z) # {}
            /\ (Matching(z) # {} /\ \A i \in Matching(z) : LoadArchive(<<z[i]>>).ok)
                  => pipe.res.ok

\* C5 witness: an archive of one matching and one non-matching member, the
\* latter with a name that differs from the suffix in case only, gave exactly
\* the records of the matching member.
C5_Witness ==
    /\ pipe.stage = "national"
    /\ pipe.res.ok
    /\ Len(pipe.rsp.entries) = 2
    /\ Matching(pipe.rsp.entries) = {2}
    /\ pipe.rsp.entries[1].name = NameYobUpper
    /\ pipe.rsp.entries[1].lines = <<LineMary2, LineJohn3>>
    /\ pipe.res.data.rows = Alone(pipe.rsp.entries, 2)

\* C6: in the national pipeline every record carries the year written at
\* indices 3..6 of its member's name and name, sex, count from fields 1, 2, 3
\* of its line; in the state pipeline the five columns state, sex, year,
\* name, count come from fields 1..5 and there is no sixth column.  The
\* member abc1999.txt holding John,M,100 gives (John, M, 100, 1999).
C6_RecordsArePositional ==
    /\ (Opened /\ pipe.res.ok) =>
          LET z    == pipe.rsp.entries
              df   == pipe.res.data
          IN  /\ df.cols = IF pipe.stage = "national"
                           THEN <<"name", "sex", "count", "year">>
                           ELSE <<"state", "sex", "year", "name", "count">>
              /\ \A i \in Matching(z) : \A r \in 1..Len(z[i].lines) :
                    LET rec  == df.rows[Before(z, i) + r]
                        line == z[i].lines[r]
                    IN  /\ \A j \in 1..Width :
                              IF j <= Len(line) THEN FromField(rec[j], line[j])
                              ELSE rec[j] = NaN
                        /\ pipe.stage = "national" =>
                              /\ Len(z[i].name) >= 7
                              /\ rec[4] = Num(YearDigits(z[i].name))
                        /\ Len(rec) = Len(df.cols)
    /\ (pipe.stage = "national" /\ Opened
        /\ pipe.rsp.entries = <<[name |-> NameAbc1999, lines |-> <<LineJohn3>>]>>)
          => pipe.res = Ok(Frame(<<"name", "sex", "count", "year">>,
                                 <<<<Str(FJohn), Str(FM), Num(100), Num(1999)>>>>))
    /\ (pipe.stage = "state" /\ Opened
        /\ pipe.rsp.entries = <<[name |-> NameCA, lines |-> <<LineMary5>>]>>)
          => pipe.res = Ok(Frame(<<"state", "sex", "year", "name", "count">>,
                                 <<<<Str(FCA), Str(FF), Num(2001), Str(FMary), Num(50)>>>>))

\* C6 witness: the national loader returned a Dataset whose second member's
\* records carry the year 2001 of its name.
C6_Witness ==
    /\ pipe.stage = "national"
    /\ pipe.res.ok
    /\ Len(pipe.rsp.entries) = 2
    /\ pipe.rsp.entries[1].name = NameAbc1999
    /\ pipe.rsp.entries[2].name = NameYob2001
    /\ Len(pipe.res.data.rows) = 3
    /\ pipe.res.data.rows[1][4] = Num(1999)
    /\ pipe.res.data.rows[3][4] = Num(2001)

\* C7 (as claimed): a network failure, a response with a non-success status
\* and a body that does not open as an archive each make the call fail.
C7_FetchErrorsFail ==
    (Applied /\ (pipe.rsp.net # "ok" \/ pipe.rsp.status # 200 \/ ~pipe.rsp.zip))
        => ~pipe.res.ok

\* C8 (as claimed): a line of a matching member whose field count differs from
\* the schema makes the call return no Dataset.
C8_WrongFieldCountFails ==
    (Opened /\ \E i \in Matching(pipe.rsp.entries) :
                  \E r \in 1..Len(pipe.rsp.entries[i].lines) :
                      Len(pipe.rsp.entries[i].lines[r]) # Width)
        => ~pipe.res.ok

-----------------------------------------------------------------------------
(* Properties of the cached loaders and of the script runs (Spec).         *)

\* exceptions of the fetch itself: no response, or a body that is no archive
FetchErrors == {"ConnectionError", "BadZipFile"}

FetchesSucceeded(k) ==
    \A i \in 1..Len(fails[k]) : fails[k][i] \notin FetchErrors

\* C1 (as claimed): in a process whose fetches for a key all succeeded, the
\* fetch for that key has been performed exactly once, however many calls
\* were made.
C1_FetchOncePerKey ==
    \A k \in Keys : (calls[k] >= 1 /\ FetchesSucceeded(k)) => fetches[k] = 1

\* C1 (amended): in a process whose loader calls for a key all succeeded, the
\* fetch for that key has been performed exactly once, so one successful call
\* for each key performs two fetches; in general a key has been fetched once
\* per failed call and once more if a call has succeeded.
C1_FetchOncePerSuccess ==
    /\ \A k \in Keys :
          /\ fetches[k] = Len(fails[k]) + (IF cache[k].set THEN 1 ELSE 0)
          /\ (calls[k] >= 1 /\ fails[k] = <<>>) => fetches[k] = 1
    /\ (\A k \in Keys : calls[k] >= 1 /\ fails[k] = <<>>)
          => fetches["national"] + fetches["state"] = 2

\* C1 witness: each loader was called twice, every call succeeded, and each
\* key was fetched once.
C1_Witness ==
    \A k \in Keys : calls[k] = 2 /\ fails[k] = <<>> /\ fetches[k] = 1

\* C2: a loader call that raises leaves the store of its key as it was,
\* unfetched, and hands the caller no value; a call made while the key is
\* unfetched runs the body, fetch included; a stored value is only ever the
\* Dataset a body returned.
C2_FailureNotCached ==
    [][ /\ \A k \in Keys :
              calls'[k] = calls[k] + 1 =>
                  /\ ~cache[k].set => fetches'[k] = fetches[k] + 1
                  /\ fails'[k] # fails[k] =>
                        /\ ~cache'[k].set
                        /\ cache'[k] = cache[k]
                        /\ ~env'[k \o "_data"].set
                        /\ pc' = "crashed"
                  /\ cache'[k].set =>
                        /\ first'[k].set
                        /\ cache'[k].data = first'[k].data
                        /\ cache'[k].data.rows # <<>>
        /\ mstat'.calls = mstat.calls + 1 =>
              /\ ~mcache.set => mstat'.fetches = mstat.fetches + 1
              /\ mstat'.fails # mstat.fails =>
                    /\ ~mcache'.set
                    /\ ~menv'.df.set
              /\ mcache'.set => HasCol(mcache'.data, LabelTeam)
      ]_vars

\* C2 witness: two calls of the national loader failed one after the other,
\* each fetched, and the key is still unfetched.
C2_Witness ==
    /\ calls["national"] = 2
    /\ Len(fails["national"]) = 2
    /\ fetches["national"] = 2
    /\ ~cache["national"].set

\* C3: once a call for a key has succeeded, the store holds that call's
\* Dataset for good and every later call returns it, row for row, whatever
\* the remote now serves and whatever earlier runs derived from it.
C3_CachedLoaderIdempotent ==
    /\ \A k \in Keys : cache[k].set => (first[k].set /\ cache[k] = first[k])
    /\ env.national_data.set => env.national_data = first["national"]
    /\ env.state_data.set => env.state_data = first["state"]

\* C3 witness: a later run received the first Dataset again, and its derived
\* copy with the added column left that Dataset as it was.
C3_Witness ==
    /\ calls["national"] = 3
    /\ fetches["national"] = 1
    /\ env.national_data.set
    /\ env.national_data = first["national"]
    /\ env.year_data.set
    /\ HasCol(env.year_data.data, "name_length")
    /\ ~HasCol(env.national_data.data, "name_length")

Lab9Uses == {"sidebar", "name_trends", "stats", "top_names", "tab2"}
MlbUses  == {"sidebar", "rankings", "team", "custom"}

\* C9: in a Lab_9 run the national loader is called first and the state
\* loader second, the state loader only after the national one returned, and
\* no sidebar, filter or chart step runs unless both returned; a loader that
\* raises ends the run.  In an MLB run a failing load_data shows the error
\* and stops the run, and no step reading df runs without df.
C9_LoadPrecedesUse ==
    /\ \A i \in 1..Len(env.trace) :
          /\ env.trace[i] = "load_national" => i = 1
          /\ env.trace[i] = "load_state" =>
                i = 2 /\ env.trace[1] = "load_national" /\ env.national_data.set
          /\ env.trace[i] \in Lab9Uses =>
                /\ i > 2
                /\ env.trace[1] = "load_national" /\ env.trace[2] = "load_state"
                /\ env.national_data.set /\ env.state_data.set
    /\ (Len(env.trace) >= 1 /\ ~env.national_data.set) =>
          (env.trace = <<"load_national">> /\ pc = "crashed")
    /\ (Len(env.trace) >= 2 /\ ~env.state_data.set) =>
          (env.trace = <<"load_national", "load_state">> /\ pc = "crashed")
    /\ pc = "load_state" => env.national_data.set
    /\ pc \in {"sidebar", "tab1", "stats", "tab2", "done"} =>
          (env.national_data.set /\ env.state_data.set)
    /\ \A i \in 1..Len(menv.trace) :
          menv.trace[i] \in MlbUses =>
              i > 1 /\ menv.trace[1] = "load" /\ menv.df.set
    /\ (Len(menv.trace) >= 1 /\ ~menv.df.set) =>
          (menv.trace = <<"load">> /\ menv.error_shown /\ mpc = "stopped")
    /\ mpc \in {"sidebar", "main", "done"} => menv.df.set

\* C9 witness: the national loader raised; the run ended there and the state
\* loader was never called in this process.
C9_Witness ==
    /\ pc = "crashed"
    /\ env.trace = <<"load_national">>
    /\ ~env.national_data.set
    /\ calls["national"] = 1
    /\ calls["state"] = 0

\* C10 (as claimed): the statistics column never reads name_data before the
\* run has assigned it.
C10_NameDataAssignedBeforeRead ==
    pc = "stats" => env.name_data.set

=============================================================================
